---- MODULE Spec2Model ----
(***************************************************************************)
(* A model of crl/updater/updater.go: the crlUpdater of boulder.           *)
(*                                                                         *)
(* Times are integers counted in nanoseconds from the zero time            *)
(* time.Time{}.  A time.Duration is a signed integer of DurBits bits; the  *)
(* program has 64 of them, the model keeps the width and its wrap-around   *)
(* and saturation but scales it down so that reference times on both sides *)
(* of the largest duration are enumerated.                                 *)
(***************************************************************************)
EXTENDS Integers, Sequences, FiniteSets, TLC

VARIABLES
    cfg,         \* the crlUpdater's fields set by NewUpdater
    now,         \* what cu.clk.Now() returns
    ticks,       \* ticks started so far
    pc,          \* where Run / tick / tickIssuer stands
    todo,        \* tick: the issuers the range loop has not reached yet
    tickResult,  \* tick: result
    atTime,      \* tick: atTime
    id,          \* tickIssuer: id
    shardID,     \* tickIssuer: shardID
    result,      \* tickIssuer: result
    err,         \* the error tickIssuer returns: nil, or the failing stage and shard
    saReq,       \* the GetRevokedCertsRequest of the current shard
    saStream,    \* the data-source stream of the current shard
    caStream,    \* the generation-service stream of the current shard
    entry,       \* tickIssuer: the entry received and not forwarded yet
    crlBytes,    \* tickIssuer: crlBytes, as the chunks appended
    crl,         \* tickIssuer: the parsed CRL
    saOpen,      \* data-source streams opened and not finished
    caOpen,      \* generation-service streams opened and not finished
    calls,       \* per issuer: calls of tickIssuer in the current tick
    opened,      \* per (issuer, shard): calls of GetRevokedCerts and GenerateCRL, this tick
    attempted,   \* (issuer, shard) pairs a data-source stream was requested for, this tick
    failedShards,\* (issuer, shard) pairs whose error was returned, this tick
    debugLog,    \* (issuer, shard) pairs logged "got complete CRL", this tick
    auditLog,    \* per issuer: entries logged by AuditErrf, this tick
    tickObs,     \* per label and result: observations of tickHistogram, this tick
    generatedCounter, \* per result: the value of the counter crl_updater_generated
    wT1, wT2,    \* getWindowForShard alone: two reference times
    wins1, wins2,\* getWindowForShard alone: the windows of shards 0, 1, ... at wT1, wT2
    wpc,         \* getWindowForShard alone: position
    tickerChan,  \* Run: the times buffered in the channel of time.Tick
    fired,       \* Run: how often the period of the ticker has elapsed
    dropped,     \* Run: the times the ticker found no room for in its channel
    newArgs,     \* NewUpdater alone: its arguments
    newRet       \* NewUpdater alone: what it returned

vars == <<cfg, now, ticks, pc, todo, tickResult, atTime, id, shardID, result, err,
          saReq, saStream, caStream, entry, crlBytes, crl, saOpen, caOpen, calls,
          attempted, opened, failedShards, debugLog, auditLog, tickObs, generatedCounter,
          wT1, wT2, wins1, wins2, wpc, tickerChan, fired, dropped,
          newArgs, newRet>>

tickVars == <<now, ticks, pc, todo, tickResult, atTime, id, shardID, result, err,
              saReq, saStream, caStream, entry, crlBytes, crl, saOpen, caOpen, calls,
              attempted, opened, failedShards, debugLog, auditLog, tickObs, generatedCounter>>

winVars == <<wT1, wT2, wins1, wins2, wpc>>

runVars == <<tickerChan, fired, dropped>>

newVars == <<newArgs, newRet>>

\* ------------------------------------------------------------------ bounds

\* Width in bits of time.Duration in the model.
DurBits == 5
\* How far past the largest duration the reference times reach.
TimeBeyond == 6
\* Largest number of shards configured.
MaxShards == 3
\* Durations are configured from -NegDur up to MaxLookback / MaxLookforward.
NegDur == 1
MaxLookback == 2
MaxLookforward == 6
\* Largest distance between the two reference times of two successive ticks.
MaxAdvance == 8

\* --------------------------------------------------- time.Duration, time.Time

MaxDuration == 2^(DurBits - 1) - 1
MinDuration == -(2^(DurBits - 1))
MaxTime == MaxDuration + TimeBeyond
Times == 0..MaxTime

\* Two's complement wrap-around of int64 arithmetic on durations.
Wrap(x) == ((x - MinDuration) % (2^DurBits)) + MinDuration

Abs(x) == IF x < 0 THEN -x ELSE x

\* Go's integer remainder: truncated, the sign follows the dividend.
GoRem(a, b) == IF a >= 0 THEN a % Abs(b) ELSE -((-a) % Abs(b))

\* Go's integer quotient: truncated toward zero.
GoDiv(a, b) ==
    LET q == Abs(a) \div Abs(b)
    IN  Wrap(IF (a < 0) = (b < 0) THEN q ELSE -q)

\* Time.Sub: the difference as a Duration, saturated at the largest and the
\* smallest Duration.
TimeSub(t, u) ==
    IF t - u > MaxDuration THEN MaxDuration
    ELSE IF t - u < MinDuration THEN MinDuration
    ELSE t - u

\* Time.Add: a Time holds far more than a Duration, so it does not saturate here.
TimeAdd(t, d) == t + d

\* ------------------------------------------------------------- NewUpdater

\* The scaled-down "7*24*time.Hour" of the update period check.
SevenDays == 4

\* Faulty variant of NewUpdaterAccepts: an update period of exactly seven days
\* passes.
NewUpdaterAcceptsSevenDays(numShards, lookbackPeriod, lookforwardPeriod, updatePeriod) ==
    /\ ~(numShards < 1)
    /\ ~(updatePeriod > SevenDays)
    /\ GoRem(Wrap(lookbackPeriod + lookforwardPeriod), numShards) = 0

\* NewUpdater returns an updater (TRUE) or an error (FALSE).
NewUpdaterAccepts(numShards, lookbackPeriod, lookforwardPeriod, updatePeriod) ==
    /\ ~(numShards < 1)
    /\ ~(updatePeriod >= SevenDays)
    /\ GoRem(Wrap(lookbackPeriod + lookforwardPeriod), numShards) = 0

\* The nil *crlUpdater.
NilUpdater ==
    [issuers |-> {}, numShards |-> 0, lookbackPeriod |-> 0, lookforwardPeriod |-> 0,
     updatePeriod |-> 0]

\* NewUpdater: the issuers are keyed by their name ID, the arguments are
\* checked, and the error or the updater is returned.  The argument a.issuers
\* is the list of the name IDs of the certificates given.
NewUpdater(a) ==
    LET issuersByNameID == {a.issuers[n] : n \in 1..Len(a.issuers)}
    IN  IF NewUpdaterAccepts(a.numShards, a.lookbackPeriod, a.lookforwardPeriod,
                             a.updatePeriod)
        THEN [err |-> FALSE,
              updater |-> [issuers |-> issuersByNameID,
                           numShards |-> a.numShards,
                           lookbackPeriod |-> a.lookbackPeriod,
                           lookforwardPeriod |-> a.lookforwardPeriod,
                           updatePeriod |-> a.updatePeriod]]
        ELSE [err |-> TRUE, updater |-> NilUpdater]

\* ------------------------------------------------------- getWindowForShard

windowWidthOf(c) == Wrap(c.lookbackPeriod + c.lookforwardPeriod)

\* The modulo by the window width panics (integer divide by zero) when the
\* window width is zero.
WindowPanics(c) == windowWidthOf(c) = 0

\* atTime.Sub(time.Time{}).Nanoseconds() % windowWidth.Nanoseconds()
atTimeOffsetOf(c, at) == GoRem(TimeSub(at, 0), windowWidthOf(c))

zeroStartOf(c, at) == TimeAdd(at, Wrap(-atTimeOffsetOf(c, at)))

\* Faulty variant of shardWidthOf: the window is not divided among the shards.
shardWidthOfWholeWindow(c) == windowWidthOf(c)

shardWidthOf(c) == GoDiv(windowWidthOf(c), c.numShards)

\* Faulty variant of BehindWindow: the lookback period is left out of the test.
BehindWindowIgnoringLookback(c, at, shardEnd) == shardEnd < at

\* Faulty variant of BehindWindow: the start of the chunk is tested, not its end.
BehindWindowByStart(c, at, shardEnd) ==
    shardEnd - shardWidthOf(c) < TimeAdd(at, Wrap(-c.lookbackPeriod))

\* The test that decides whether the chunk is bumped forward by one window.
BehindWindow(c, at, shardEnd) ==
    shardEnd < TimeAdd(at, Wrap(-c.lookbackPeriod))

getWindowForShard(c, at, shard) ==
    LET shardIdx    == GoRem(shard, c.numShards)
        windowWidth == windowWidthOf(c)
        zeroStart   == zeroStartOf(c, at)
        shardWidth  == shardWidthOf(c)
        shardOffset == Wrap(shardIdx * shardWidth)
        shardStart  == TimeAdd(zeroStart, shardOffset)
        shardEnd    == TimeAdd(shardStart, shardWidth)
    IN  IF BehindWindow(c, at, shardEnd)
        THEN [start |-> TimeAdd(shardStart, windowWidth),
              end   |-> TimeAdd(shardEnd, windowWidth)]
        ELSE [start |-> shardStart, end |-> shardEnd]

\* ------------------------------------------------------------ configurations

\* Largest number of issuers configured.
MaxIssuers == 2
IssuerNameIDs == 1..MaxIssuers

ShardCounts == 1..MaxShards
Lookbacks == (-NegDur)..MaxLookback
Lookforwards == (-NegDur)..MaxLookforward
UpdatePeriods == 1..(SevenDays - 1)

\* The updaters NewUpdater returns: its checks passed and the issuers are keyed
\* by their name ID.
Configs ==
    { c \in [issuers : SUBSET IssuerNameIDs, numShards : ShardCounts,
             lookbackPeriod : Lookbacks, lookforwardPeriod : Lookforwards,
             updatePeriod : UpdatePeriods] :
        NewUpdaterAccepts(c.numShards, c.lookbackPeriod, c.lookforwardPeriod,
                          c.updatePeriod) }

\* Labels of the tick histogram: "all", or an issuer's Subject.CommonName.
AllLabel == [kind |-> "all", issuer |-> 0]
CommonName(i) == [kind |-> "issuer", issuer |-> i]

\* The label values of the tick histogram: issuer and result.
ObsKeys == ({AllLabel} \cup {CommonName(i) : i \in IssuerNameIDs}) \X {"success", "failed"}

\* Nothing observed, nothing logged.
NoObs == [k \in ObsKeys |-> 0]
NoAudit == [i \in IssuerNameIDs |-> 0]

\* The counter crl_updater_generated as NewUpdater registers it.
NoneGenerated == [r \in {"success", "failed"} |-> 0]

\* HistogramVec.WithLabelValues(label, res).Observe.
Observe(h, label, res) == [h EXCEPT ![<<label, res>>] = @ + 1]

\* The (issuer, shard) pairs, and no stream requested for any of them.
ShardKeys == IssuerNameIDs \X (0..(MaxShards - 1))
NoneOpened == [k \in ShardKeys |-> [sa |-> 0, ca |-> 0]]

\* The nil error.
NoErr == [stage |-> "nil", shard |-> -1]

\* The state of tick and tickIssuer before Run starts.
TickIdle ==
    /\ now = 0 /\ ticks = 0 /\ pc = "idle" /\ todo = {}
    /\ tickResult = "success" /\ atTime = 0 /\ id = 0 /\ shardID = 0
    /\ result = "success" /\ err = NoErr
    /\ saReq = <<>> /\ saStream = <<>> /\ caStream = <<>>
    /\ entry = 0 /\ crlBytes = <<>> /\ crl = <<>>
    /\ saOpen = 0 /\ caOpen = 0
    /\ calls = [i \in IssuerNameIDs |-> 0]
    /\ attempted = {} /\ failedShards = {} /\ debugLog = {} /\ auditLog = NoAudit
    /\ opened = NoneOpened
    /\ tickObs = NoObs
    /\ generatedCounter = NoneGenerated

WinIdle ==
    /\ wT1 = 0 /\ wT2 = 0 /\ wins1 = <<>> /\ wins2 = <<>> /\ wpc = "off"

\* The ticker of Run before Run starts.
RunIdle ==
    /\ tickerChan = 0 /\ fired = 0 /\ dropped = 0

\* NewUpdater is not under observation.
NewIdle ==
    /\ newArgs = <<>> /\ newRet = <<>>

\* ------------------------------------------------- NewUpdater called alone

\* The lists of at most n issuer name IDs, repetitions included.
RECURSIVE IssuerLists(_)
IssuerLists(n) ==
    IF n = 0 THEN {<<>>}
    ELSE IssuerLists(n - 1)
         \cup {Append(l, i) : l \in {m \in IssuerLists(n - 1) : Len(m) = n - 1},
                              i \in IssuerNameIDs}

\* The arguments NewUpdater is called with: shard counts from below zero,
\* update periods from below zero to beyond seven days, durations from
\* negative ones to the largest one.
NewUpdaterArgs ==
    [issuers : IssuerLists(MaxIssuers),
     numShards : (-NegDur)..MaxShards,
     lookbackPeriod : Lookbacks \cup {MaxDuration},
     lookforwardPeriod : Lookforwards \cup {MaxDuration},
     updatePeriod : (-NegDur)..(SevenDays + 1)]

InitNew ==
    /\ cfg = NilUpdater
    /\ TickIdle
    /\ WinIdle
    /\ RunIdle
    /\ newArgs \in NewUpdaterArgs
    /\ newRet = <<>>

\* NewUpdater is called and returns (lines 36-95).
NewUpdaterCall ==
    /\ newRet = <<>> /\ newArgs # <<>>
    /\ newRet' = NewUpdater(newArgs)
    /\ cfg' = newRet'.updater
    /\ UNCHANGED <<tickVars, winVars, runVars, newArgs>>

NextNew == NewUpdaterCall

SpecNew == InitNew /\ [][NextNew]_vars

\* ------------------------------------------- getWindowForShard called alone

\* The configurations of the window computation; the issuers and the update
\* period play no part in it.
WinConfigs == { c \in Configs : c.issuers = {} /\ c.updatePeriod = 1 }

InitWin ==
    /\ cfg \in WinConfigs
    /\ TickIdle
    /\ wT1 \in Times /\ wT2 = wT1
    /\ wins1 = <<>> /\ wins2 = <<>> /\ wpc = "first"
    /\ RunIdle
    /\ NewIdle

\* The shards 0 .. numShards-1 in turn, as tickIssuer's loop calls
\* getWindowForShard, at the first reference time.
WinFirst ==
    /\ wpc = "first" /\ ~WindowPanics(cfg) /\ Len(wins1) < cfg.numShards
    /\ wins1' = Append(wins1, getWindowForShard(cfg, wT1, Len(wins1)))
    /\ UNCHANGED <<cfg, tickVars, runVars, newVars, wT1, wT2, wins2, wpc>>

\* The modulo by a zero window width panics.
WinPanic ==
    /\ wpc = "first" /\ WindowPanics(cfg)
    /\ wpc' = "panic"
    /\ UNCHANGED <<cfg, tickVars, runVars, newVars, wT1, wT2, wins1, wins2>>

\* The clock moves on to the reference time of a later tick.
WinAdvance ==
    /\ wpc = "first" /\ Len(wins1) = cfg.numShards
    /\ \E t \in Times : /\ wT1 <= t /\ t <= wT1 + MaxAdvance
                        /\ wT2' = t
    /\ wpc' = "second"
    /\ UNCHANGED <<cfg, tickVars, runVars, newVars, wT1, wins1, wins2>>

WinSecond ==
    /\ wpc = "second" /\ Len(wins2) < cfg.numShards
    /\ wins2' = Append(wins2, getWindowForShard(cfg, wT2, Len(wins2)))
    /\ UNCHANGED <<cfg, tickVars, runVars, newVars, wT1, wT2, wins1, wpc>>

NextWin == WinFirst \/ WinPanic \/ WinAdvance \/ WinSecond

SpecWin == InitWin /\ [][NextWin]_vars

\* ------------------------------------------------------- Run, tick, tickIssuer

\* Largest number of ticks of one run.
MaxTicks == 2
\* Largest number of streams of one kind the services keep open at once.
MaxStreams == 2
\* Largest number of shards of one tick, all issuers together, of the
\* configurations Run is started with.
MaxTickWork == 4
\* Largest number of records one data-source stream yields.
MaxEntries == 2
\* Largest number of chunks one generation-service stream yields.
MaxChunks == 1

\* The instant 1970-01-01 counted from the zero time, in the scale of the
\* model: as in the program it lies between six and seven times the largest
\* duration after the zero time.
UnixEpoch == (27 * (2^(DurBits - 1))) \div 4

\* Time.UnixNano: nanoseconds since 1970 as an int64.
UnixNano(t) == Wrap(t - UnixEpoch)

\* The chunks of CRL bytes the generation service may answer issuer i with:
\* not DER (0), part of a DER CRL signed by the key of issuer i, or part of one
\* signed by some other key (MaxIssuers + 1).
ChunksFor(i) == {0, i, MaxIssuers + 1}

\* x509.ParseDERCRL: the bytes are a CRL when they are the DER of one.
ParsesAsCRL(bytes) ==
    /\ Len(bytes) > 0
    /\ \A n \in 1..Len(bytes) : bytes[n] # 0 /\ bytes[n] = bytes[1]

\* Faulty variant of SignatureOk: a signature by any issuer's key is accepted.
SignatureOkAnyKey(i, parsed) == parsed.signer # 0

\* Certificate.CheckCRLSignature of issuer i.
SignatureOk(i, parsed) == parsed.signer = i

MetadataMsg(i, t) == [type |-> "metadata", issuerNameID |-> i, thisUpdate |-> UnixNano(t)]
EntryMsg(e) == [type |-> "entry", entry |-> e]

\* Faulty variant of SendEntry: the entry goes in front of what was sent.
SendEntryInFront(stream, e) == [stream EXCEPT !.sent = <<EntryMsg(e)>> \o @]

\* caStream.Send of one entry.
SendEntry(stream, e) == [stream EXCEPT !.sent = Append(@, EntryMsg(e))]

\* Faulty variant of AfterIssuer: tick returns at the first issuer that failed.
AfterIssuerAbort(e, rest) == IF e # NoErr THEN {} ELSE rest

\* tick's loop after an issuer: the issuers it still visits, whatever err is.
AfterIssuer(e, rest) == rest

\* Faulty variant of ResultAfter: the result of the last issuer wins.
ResultAfterLastWins(e, res) == IF e # NoErr THEN "failed" ELSE "success"

\* tick's result after an issuer returned e.
ResultAfter(e, res) == IF e # NoErr THEN "failed" ELSE res

\* Faulty variant of AuditLogged: an entry is logged whatever tickIssuer returned.
AuditLoggedAlways(log, i, e) == [log EXCEPT ![i] = @ + 1]

\* The audit log after tickIssuer returned e for issuer i: AuditErrf is called
\* when e is not nil.
AuditLogged(log, i, e) == IF e # NoErr THEN [log EXCEPT ![i] = @ + 1] ELSE log

\* The histogram after the deferred function of tickIssuer has observed.
IssuerObserved(h) == Observe(h, CommonName(id), result)

\* The histogram after the deferred function of tick has observed.
TickObserved(h) == Observe(h, AllLabel, tickResult)

\* The configurations Run is started with: the sets of issuers and the shard
\* counts that give a tick at most MaxTickWork shards to generate, with a
\* window of zero width and one of a unit per shard (the
\* window decides the requests sent and whether getWindowForShard panics,
\* nothing else of tick).
TickConfigs ==
    { c \in Configs : /\ c.updatePeriod = 1
                      /\ Cardinality(c.issuers) * c.numShards <= MaxTickWork
                      /\ c.lookbackPeriod = 0
                      /\ c.lookforwardPeriod \in {0, c.numShards} }

InitTick ==
    /\ cfg \in TickConfigs
    /\ TickIdle
    /\ WinIdle
    /\ RunIdle
    /\ NewIdle

\* Faulty variant of RunIsWaiting: Run takes the next time from the ticker
\* without waiting for tick to return.
RunIsWaitingAlways == TRUE

\* Run stands at "range ticker": the loop body, the call of tick, is over
\* (lines 99-102).
RunIsWaiting == pc = "idle"

\* tick starts (lines 101, 105-107).
TickStart ==
    /\ ticks < MaxTicks
    /\ now' = now + cfg.updatePeriod
    /\ ticks' = ticks + 1
    /\ tickResult' = "success"
    /\ todo' = cfg.issuers
    /\ calls' = [i \in IssuerNameIDs |-> 0]
    /\ attempted' = {} /\ failedShards' = {} /\ debugLog' = {}
    /\ opened' = NoneOpened
    /\ auditLog' = NoAudit /\ tickObs' = NoObs
    /\ pc' = "tick_loop"
    /\ UNCHANGED <<cfg, generatedCounter, atTime, id, shardID, result, err, saReq, saStream, caStream,
                   entry, crlBytes, crl, saOpen, caOpen, winVars>>

\* Run with ticks shorter than the period: the ticker fires while Run waits,
\* Run receives the time at once and calls tick (lines 98-101).
TickerFire ==
    /\ RunIsWaiting
    /\ TickStart
    /\ UNCHANGED <<runVars, newVars>>

\* tick: the range loop takes an issuer, in any order, and calls tickIssuer
\* (lines 112-116, 207-208).
TickNextIssuer ==
    /\ pc = "tick_loop" /\ todo # {}
    /\ \E i \in todo : id' = i /\ calls' = [calls EXCEPT ![i] = @ + 1]
    /\ atTime' = now
    /\ result' = "success" /\ err' = NoErr /\ shardID' = 0
    /\ pc' = "shard_loop"
    /\ UNCHANGED <<cfg, now, ticks, todo, tickResult, saReq, saStream, caStream,
                   entry, crlBytes, crl, saOpen, caOpen, attempted, opened, failedShards,
                   debugLog, auditLog, tickObs, generatedCounter, winVars, runVars, newVars>>

\* tick: the loop is over, the deferred function observes, Run waits again
\* (lines 108-110, 127).
TickReturn ==
    /\ pc = "tick_loop" /\ todo = {}
    /\ tickObs' = TickObserved(tickObs)
    /\ pc' = "idle"
    /\ UNCHANGED <<cfg, generatedCounter, now, ticks, todo, tickResult, atTime, id, shardID, result, err,
                   saReq, saStream, caStream, entry, crlBytes, crl, saOpen, caOpen,
                   calls, attempted, opened, failedShards, debugLog, auditLog, winVars, runVars, newVars>>

\* tickIssuer returns: its deferred function observes (lines 209-211).
TickIssuerReturn ==
    /\ pc = "issuer_ret"
    /\ tickObs' = IssuerObserved(tickObs)
    /\ pc' = "tick_err"
    /\ UNCHANGED <<cfg, generatedCounter, now, ticks, todo, tickResult, atTime, id, shardID, result, err,
                   saReq, saStream, caStream, entry, crlBytes, crl, saOpen, caOpen,
                   calls, attempted, opened, failedShards, debugLog, auditLog, winVars, runVars, newVars>>

\* tick: the error of tickIssuer is logged, never returned; the locals of the
\* call are gone (lines 117-125).
TickHandleErr ==
    /\ pc = "tick_err"
    /\ auditLog' = AuditLogged(auditLog, id, err)
    /\ tickResult' = ResultAfter(err, tickResult)
    /\ todo' = AfterIssuer(err, todo \ {id})
    /\ id' = 0 /\ shardID' = 0 /\ result' = "success" /\ err' = NoErr /\ saReq' = <<>>
    /\ pc' = "tick_loop"
    /\ UNCHANGED <<cfg, now, ticks, atTime,
                   saStream, caStream, entry, crlBytes, crl, saOpen, caOpen,
                   calls, attempted, opened, failedShards, debugLog, tickObs, generatedCounter, winVars, runVars, newVars>>

\* Faulty variant of ShardFails: the shard is tried again.
ShardFailsRetry(stage) ==
    /\ result' = result
    /\ err' = NoErr
    /\ failedShards' = failedShards
    /\ saStream' = <<>> /\ caStream' = <<>>
    /\ entry' = 0 /\ crlBytes' = <<>> /\ crl' = <<>>
    /\ pc' = "shard_loop"

\* Faulty variant of ShardFails: the error is returned and result is not set.
ShardFailsResultUnset(stage) ==
    /\ result' = result
    /\ err' = [stage |-> stage, shard |-> shardID]
    /\ failedShards' = failedShards \cup {<<id, shardID>>}
    /\ saStream' = <<>> /\ caStream' = <<>>
    /\ entry' = 0 /\ crlBytes' = <<>> /\ crl' = <<>>
    /\ pc' = "issuer_ret"

\* tickIssuer: a stage of the current shard failed: result is set and the
\* error, which names the shard, is returned.
ShardFails(stage) ==
    /\ result' = "failed"
    /\ err' = [stage |-> stage, shard |-> shardID]
    /\ failedShards' = failedShards \cup {<<id, shardID>>}
    /\ saStream' = <<>> /\ caStream' = <<>>
    /\ entry' = 0 /\ crlBytes' = <<>> /\ crl' = <<>>
    /\ pc' = "issuer_ret"

\* tickIssuer: all shards are done, it returns nil (lines 213, 299).
ShardsDone ==
    /\ pc = "shard_loop" /\ ~(shardID < cfg.numShards)
    /\ err' = NoErr
    /\ pc' = "issuer_ret"
    /\ UNCHANGED <<cfg, now, ticks, todo, tickResult, atTime, id, shardID, result,
                   saReq, saStream, caStream, entry, crlBytes, crl, saOpen, caOpen,
                   calls, attempted, opened, failedShards, debugLog, auditLog, tickObs, generatedCounter, winVars, runVars, newVars>>

\* The request of lines 218-223 for the current shard.
RevokedCertsRequest ==
    LET w == getWindowForShard(cfg, atTime, shardID)
    IN  [issuerNameID  |-> id,
         expiresAfter  |-> UnixNano(w.start),
         expiresBefore |-> UnixNano(w.end),
         revokedBefore |-> UnixNano(atTime)]

\* getWindowForShard panics on a zero window width: the deferred functions of
\* tickIssuer and of tick run, and the process ends (lines 182, 216).
WindowPanic ==
    /\ pc = "shard_loop" /\ shardID < cfg.numShards /\ WindowPanics(cfg)
    /\ tickObs' = TickObserved(IssuerObserved(tickObs))
    /\ pc' = "panicked"
    /\ UNCHANGED <<cfg, generatedCounter, now, ticks, todo, tickResult, atTime, id, shardID, result, err,
                   saReq, saStream, caStream, entry, crlBytes, crl, saOpen, caOpen,
                   calls, attempted, opened, failedShards, debugLog, auditLog, winVars, runVars, newVars>>

\* sa.GetRevokedCerts returns a stream that will yield n records (lines 216-223).
GetRevokedCertsOk ==
    /\ pc = "shard_loop" /\ shardID < cfg.numShards /\ ~WindowPanics(cfg)
    /\ saOpen < MaxStreams
    /\ saReq' = RevokedCertsRequest
    /\ attempted' = attempted \cup {<<id, shardID>>}
    /\ opened' = [opened EXCEPT ![<<id, shardID>>].sa = @ + 1]
    /\ \E n \in 0..MaxEntries :
         saStream' = [pending |-> [e \in 1..n |-> e], recvd |-> <<>>]
    /\ saOpen' = saOpen + 1
    /\ pc' = "ca_open"
    /\ UNCHANGED <<cfg, now, ticks, todo, tickResult, atTime, id, shardID, result, err,
                   caStream, entry, crlBytes, crl, caOpen, calls, failedShards,
                   debugLog, auditLog, tickObs, generatedCounter, winVars, runVars, newVars>>

\* sa.GetRevokedCerts returns an error (lines 224-227).
GetRevokedCertsErr ==
    /\ pc = "shard_loop" /\ shardID < cfg.numShards /\ ~WindowPanics(cfg)
    /\ saReq' = RevokedCertsRequest
    /\ attempted' = attempted \cup {<<id, shardID>>}
    /\ opened' = [opened EXCEPT ![<<id, shardID>>].sa = @ + 1]
    /\ ShardFails("sa_open")
    /\ UNCHANGED <<cfg, now, ticks, todo, tickResult, atTime, id, shardID, saOpen, caOpen, calls, debugLog, auditLog, tickObs, generatedCounter, winVars, runVars, newVars>>


\* ca.GenerateCRL returns a stream (line 229).
GenerateCRLOk ==
    /\ pc = "ca_open"
    /\ caOpen < MaxStreams
    /\ caStream' = [sent |-> <<>>, sendClosed |-> FALSE]
    /\ caOpen' = caOpen + 1
    /\ opened' = [opened EXCEPT ![<<id, shardID>>].ca = @ + 1]
    /\ pc' = "send_meta"
    /\ UNCHANGED <<cfg, now, ticks, todo, tickResult, atTime, id, shardID, result, err,
                   saReq, saStream, entry, crlBytes, crl, saOpen, calls, attempted,
                   failedShards, debugLog, auditLog, tickObs, generatedCounter, winVars, runVars, newVars>>

\* ca.GenerateCRL returns an error; the data-source stream is left as it is
\* (lines 230-233).
GenerateCRLErr ==
    /\ pc = "ca_open"
    /\ opened' = [opened EXCEPT ![<<id, shardID>>].ca = @ + 1]
    /\ ShardFails("ca_open")
    /\ UNCHANGED <<cfg, now, ticks, todo, tickResult, atTime, id, shardID, saReq, saOpen, caOpen, calls, attempted, debugLog, auditLog, tickObs, generatedCounter, winVars, runVars, newVars>>

\* caStream.Send of the metadata succeeds (lines 235-242).
SendMetadataOk ==
    /\ pc = "send_meta"
    /\ caStream' = [caStream EXCEPT !.sent = Append(@, MetadataMsg(id, atTime))]
    /\ pc' = "sa_recv"
    /\ UNCHANGED <<cfg, now, ticks, todo, tickResult, atTime, id, shardID, result, err,
                   saReq, saStream, entry, crlBytes, crl, saOpen, caOpen, calls,
                   attempted, opened, failedShards, debugLog, auditLog, tickObs, generatedCounter, winVars, runVars, newVars>>

\* caStream.Send of the metadata fails, which ends that stream (lines 243-246).
SendMetadataErr ==
    /\ pc = "send_meta"
    /\ caOpen' = caOpen - 1
    /\ ShardFails("send_meta")
    /\ UNCHANGED <<cfg, now, ticks, todo, tickResult, atTime, id, shardID, saReq, saOpen, calls, attempted, opened, debugLog, auditLog, tickObs, generatedCounter, winVars, runVars, newVars>>

\* saStream.Recv yields the next record (line 249).
SaRecvEntry ==
    /\ pc = "sa_recv" /\ saStream.pending # <<>>
    /\ entry' = Head(saStream.pending)
    /\ saStream' = [pending |-> Tail(saStream.pending),
                    recvd   |-> Append(saStream.recvd, Head(saStream.pending))]
    /\ pc' = "ca_send"
    /\ UNCHANGED <<cfg, now, ticks, todo, tickResult, atTime, id, shardID, result, err,
                   saReq, caStream, crlBytes, crl, saOpen, caOpen, calls, attempted, opened,
                   failedShards, debugLog, auditLog, tickObs, generatedCounter, winVars, runVars, newVars>>

\* saStream.Recv returns io.EOF: the data-source stream is finished and the
\* loop reading the output starts (lines 250-253, 269).
SaRecvEOF ==
    /\ pc = "sa_recv" /\ saStream.pending = <<>>
    /\ saOpen' = saOpen - 1
    /\ crlBytes' = <<>>
    /\ pc' = "ca_recv"
    /\ UNCHANGED <<cfg, now, ticks, todo, tickResult, atTime, id, shardID, result, err,
                   saReq, saStream, caStream, entry, crl, caOpen, calls, attempted, opened,
                   failedShards, debugLog, auditLog, tickObs, generatedCounter, winVars, runVars, newVars>>

\* saStream.Recv returns another error: the data-source stream is finished, the
\* generation-service stream is left as it is (lines 254-255).
SaRecvErr ==
    /\ pc = "sa_recv"
    /\ saOpen' = saOpen - 1
    /\ ShardFails("sa_recv")
    /\ UNCHANGED <<cfg, now, ticks, todo, tickResult, atTime, id, shardID, saReq, caOpen, calls, attempted, opened, debugLog, auditLog, tickObs, generatedCounter, winVars, runVars, newVars>>

\* caStream.Send of the entry succeeds (lines 258-262).
CaSendEntryOk ==
    /\ pc = "ca_send"
    /\ caStream' = SendEntry(caStream, entry)
    /\ pc' = "sa_recv"
    /\ UNCHANGED <<cfg, now, ticks, todo, tickResult, atTime, id, shardID, result, err,
                   saReq, saStream, entry, crlBytes, crl, saOpen, caOpen, calls,
                   attempted, opened, failedShards, debugLog, auditLog, tickObs, generatedCounter, winVars, runVars, newVars>>

\* caStream.Send of the entry fails, which ends that stream; the data-source
\* stream is left as it is (lines 263-266).
CaSendEntryErr ==
    /\ pc = "ca_send"
    /\ caOpen' = caOpen - 1
    /\ ShardFails("ca_send")
    /\ UNCHANGED <<cfg, now, ticks, todo, tickResult, atTime, id, shardID, saReq, saOpen, calls, attempted, opened, debugLog, auditLog, tickObs, generatedCounter, winVars, runVars, newVars>>

\* caStream.Recv yields a chunk, appended to crlBytes (lines 271, 280).
CaRecvChunk ==
    /\ pc = "ca_recv" /\ Len(crlBytes) < MaxChunks
    /\ \E c \in ChunksFor(id) : crlBytes' = Append(crlBytes, c)
    /\ UNCHANGED <<cfg, now, ticks, pc, todo, tickResult, atTime, id, shardID, result,
                   err, saReq, saStream, caStream, entry, crl, saOpen, caOpen, calls,
                   attempted, opened, failedShards, debugLog, auditLog, tickObs, generatedCounter, winVars, runVars, newVars>>

\* caStream.Recv returns io.EOF: the generation-service stream is finished
\* (lines 272-275).
CaRecvEOF ==
    /\ pc = "ca_recv"
    /\ caOpen' = caOpen - 1
    /\ pc' = "parse"
    /\ UNCHANGED <<cfg, now, ticks, todo, tickResult, atTime, id, shardID, result, err,
                   saReq, saStream, caStream, entry, crlBytes, crl, saOpen, calls,
                   attempted, opened, failedShards, debugLog, auditLog, tickObs, generatedCounter, winVars, runVars, newVars>>

\* caStream.Recv returns another error (lines 276-277).
CaRecvErr ==
    /\ pc = "ca_recv"
    /\ caOpen' = caOpen - 1
    /\ ShardFails("ca_recv")
    /\ UNCHANGED <<cfg, now, ticks, todo, tickResult, atTime, id, shardID, saReq, saOpen, calls, attempted, opened, debugLog, auditLog, tickObs, generatedCounter, winVars, runVars, newVars>>

\* x509.ParseDERCRL succeeds (line 283).
ParseOk ==
    /\ pc = "parse" /\ ParsesAsCRL(crlBytes)
    /\ crl' = [signer |-> crlBytes[1]]
    /\ pc' = "verify"
    /\ UNCHANGED <<cfg, now, ticks, todo, tickResult, atTime, id, shardID, result, err,
                   saReq, saStream, caStream, entry, crlBytes, saOpen, caOpen, calls,
                   attempted, opened, failedShards, debugLog, auditLog, tickObs, generatedCounter, winVars, runVars, newVars>>

\* x509.ParseDERCRL fails (lines 284-287).
ParseErr ==
    /\ pc = "parse" /\ ~ParsesAsCRL(crlBytes)
    /\ ShardFails("parse")
    /\ UNCHANGED <<cfg, now, ticks, todo, tickResult, atTime, id, shardID, saReq, saOpen, caOpen, calls, attempted, opened, debugLog, auditLog, tickObs, generatedCounter, winVars, runVars, newVars>>

\* CheckCRLSignature succeeds: the shard is logged as complete and the loop
\* goes on to the next shard (lines 289, 296, 213).
VerifyOk ==
    /\ pc = "verify" /\ SignatureOk(id, crl)
    /\ debugLog' = debugLog \cup {<<id, shardID>>}
    /\ shardID' = shardID + 1
    /\ saStream' = <<>> /\ caStream' = <<>>
    /\ entry' = 0 /\ crlBytes' = <<>> /\ crl' = <<>>
    /\ pc' = "shard_loop"
    /\ UNCHANGED <<cfg, now, ticks, todo, tickResult, atTime, id, result, err,
                   saReq, saOpen, caOpen, calls, attempted, opened,
                   failedShards, auditLog, tickObs, generatedCounter, winVars, runVars, newVars>>

\* CheckCRLSignature fails (lines 290-293).
VerifyErr ==
    /\ pc = "verify" /\ ~SignatureOk(id, crl)
    /\ ShardFails("verify")
    /\ UNCHANGED <<cfg, now, ticks, todo, tickResult, atTime, id, shardID, saReq, saOpen, caOpen, calls, attempted, opened, debugLog, auditLog, tickObs, generatedCounter, winVars, runVars, newVars>>

\* The steps of tick and tickIssuer once tick has started.
TickSteps ==
    \/ TickNextIssuer \/ TickReturn \/ TickIssuerReturn \/ TickHandleErr
    \/ ShardsDone \/ WindowPanic
    \/ GetRevokedCertsOk \/ GetRevokedCertsErr
    \/ GenerateCRLOk \/ GenerateCRLErr
    \/ SendMetadataOk \/ SendMetadataErr
    \/ SaRecvEntry \/ SaRecvEOF \/ SaRecvErr
    \/ CaSendEntryOk \/ CaSendEntryErr
    \/ CaRecvChunk \/ CaRecvEOF \/ CaRecvErr
    \/ ParseOk \/ ParseErr
    \/ VerifyOk \/ VerifyErr

Next == TickerFire \/ TickSteps

Init == InitTick

Spec == Init /\ [][Next]_vars

\* ------------------------------------------------- Run, tick under fairness

\* The steps of tick and tickIssuer that are bound to happen: the program runs
\* on, a call of a service returns, a Send returns, and Recv on the finite
\* data-source stream returns a record, the end or an error.
StepsThatReturn ==
    \/ TickNextIssuer \/ TickReturn \/ TickIssuerReturn \/ TickHandleErr
    \/ ShardsDone \/ WindowPanic
    \/ GetRevokedCertsOk \/ GetRevokedCertsErr
    \/ GenerateCRLOk \/ GenerateCRLErr
    \/ SendMetadataOk \/ SendMetadataErr
    \/ SaRecvEntry \/ SaRecvEOF \/ SaRecvErr
    \/ CaSendEntryOk \/ CaSendEntryErr
    \/ ParseOk \/ ParseErr
    \/ VerifyOk \/ VerifyErr

\* The generation service is bound to send its output and to end it once it
\* has received the end of its input; before that, caStream.Recv (line 271)
\* may return or block.
CaOutputAfterEndOfInput ==
    /\ pc = "ca_recv" /\ caStream.sendClosed
    /\ (CaRecvChunk \/ CaRecvEOF \/ CaRecvErr)

\* Run, tick and tickIssuer where every step that is bound to happen does
\* happen.
SpecLive ==
    /\ Init /\ [][Next]_vars
    /\ WF_vars(StepsThatReturn)
    /\ WF_vars(CaOutputAfterEndOfInput)

\* ------------------------------------------- Run with ticks of any duration

\* Capacity of the channel of time.Tick.
TickerBuffer == 1
\* Largest number of periods that elapse in one run.
MaxFirings == 4

\* The configurations of the runs in which the period may elapse during a
\* tick: at most one issuer, one shard.
RunConfigs == { c \in TickConfigs : c.issuers \subseteq {1} /\ c.numShards = 1 }

InitRun ==
    /\ cfg \in RunConfigs
    /\ TickIdle
    /\ WinIdle
    /\ RunIdle
    /\ NewIdle

\* The period of the ticker elapses: it sends the time without blocking, and
\* drops it when its channel is full.  A waiting Run has taken a buffered
\* time long before the period elapses again.
TickerSend ==
    /\ pc # "panicked" /\ fired < MaxFirings
    /\ ~(RunIsWaiting /\ tickerChan > 0 /\ ticks < MaxTicks)
    /\ fired' = fired + 1
    /\ IF tickerChan < TickerBuffer
       THEN tickerChan' = tickerChan + 1 /\ dropped' = dropped
       ELSE tickerChan' = tickerChan /\ dropped' = dropped + 1
    /\ UNCHANGED <<cfg, tickVars, winVars, newVars>>

\* Run: "range ticker" receives a time and tick is called (lines 99-101).
RunReceive ==
    /\ RunIsWaiting /\ tickerChan > 0
    /\ tickerChan' = tickerChan - 1
    /\ TickStart
    /\ UNCHANGED <<fired, dropped, newVars>>

NextRun == TickerSend \/ RunReceive \/ TickSteps

SpecRun == InitRun /\ [][NextRun]_vars


\* ------------------------------------------- claims about tick and tickIssuer

\* The positions inside tickIssuer, before its deferred function has run.
InIssuer == {"shard_loop", "ca_open", "send_meta", "sa_recv", "ca_send",
             "ca_recv", "parse", "verify", "issuer_ret"}

\* C1 (as claimed): a failing shard does not abort the issuer: when tickIssuer
\* has returned, a data-source stream was requested for every shard ID in
\* 0 .. numShards-1.
C1_EveryShardAttempted ==
    pc = "tick_err" =>
        \A k \in 0..(cfg.numShards - 1) : <<id, k>> \in attempted

\* C2: in every tick tickIssuer is called exactly once for each issuer of the
\* issuer map and for no other, whatever the earlier issuers returned: while
\* tick loops, the issuers still to visit are exactly those not called yet,
\* when it has returned every issuer was called once, and no error is left
\* over outside the call.
C2_EveryIssuerOnce ==
    /\ \A i \in IssuerNameIDs :
         calls[i] <= 1 /\ (i \notin cfg.issuers => calls[i] = 0)
    /\ pc = "tick_loop" => todo = {i \in cfg.issuers : calls[i] = 0}
    /\ (pc = "idle" /\ ticks > 0) => \A i \in cfg.issuers : calls[i] = 1
    /\ pc \in {"idle", "tick_loop"} => err = NoErr

\* C2 witness: tickIssuer has just returned nil for the last issuer of a tick
\* in which an issuer processed before it failed.
C2_Witness ==
    /\ pc = "tick_err" /\ err = NoErr /\ todo = {id}
    /\ \E i \in cfg.issuers : i # id /\ auditLog[i] = 1
    /\ \A i \in cfg.issuers : calls[i] = 1

\* C7 (as claimed): the end of input is signalled on the generation-service
\* stream before the first output message is read from it.
C7_EndOfInputBeforeOutput ==
    pc = "ca_recv" => caStream.sendClosed

\* The entries among the messages sent on the generation-service stream.
EntriesSent == [n \in 1..(Len(caStream.sent) - 1) |-> caStream.sent[n + 1].entry]

IsPrefix(p, q) == Len(p) <= Len(q) /\ \A n \in 1..Len(p) : p[n] = q[n]

\* C8: on the generation-service stream of a shard nothing is sent before the
\* metadata; then the messages are the metadata followed by entries only, the
\* entries are, in order, the records received from the data-source stream, at
\* most the one just received missing, and all of them once the output is read.
C8_MetadataThenEntriesInOrder ==
    /\ pc = "send_meta" => caStream.sent = <<>>
    /\ pc \in {"sa_recv", "ca_send", "ca_recv", "parse", "verify"} =>
         /\ Len(caStream.sent) >= 1
         /\ caStream.sent[1] = MetadataMsg(id, atTime)
         /\ \A n \in 2..Len(caStream.sent) : caStream.sent[n].type = "entry"
         /\ IsPrefix(EntriesSent, saStream.recvd)
         /\ Len(saStream.recvd) - Len(EntriesSent) = (IF pc = "ca_send" THEN 1 ELSE 0)
         /\ pc \in {"ca_recv", "parse", "verify"} => saStream.pending = <<>>

\* C8 witness: the output is being read after several records were forwarded.
C8_Witness ==
    /\ pc = "ca_recv" /\ Len(saStream.recvd) >= 2
    /\ EntriesSent = saStream.recvd
    /\ caStream.sent[1].type = "metadata"

\* C9 (as claimed): at most one data-source stream and at most one
\* generation-service stream is open.
C9_AtMostOneStreamEach ==
    saOpen <= 1 /\ caOpen <= 1

\* The number of observations of the current tick under the display name of
\* issuer i.
ObservationsOf(i) ==
    tickObs[<<CommonName(i), "success">>] + tickObs[<<CommonName(i), "failed">>]

\* C10: an issuer whose tickIssuer call is over has exactly one observation
\* under its display name, labelled "failed" if and only if one of its shards
\* failed in this tick and "success" otherwise; before the call is over it
\* has none.
C10_OneObservationPerIssuerTick ==
    \A i \in IssuerNameIDs :
        IF calls[i] = 1 /\ ~(id = i /\ pc \in InIssuer)
        THEN /\ ObservationsOf(i) = 1
             /\ tickObs[<<CommonName(i), "failed">>] = 1
                  <=> (\E k \in 0..(cfg.numShards - 1) : <<i, k>> \in failedShards)
        ELSE ObservationsOf(i) = 0

\* C10 witness: tickIssuer has returned after its second shard failed, the
\* first having succeeded, and its observation is recorded as failed.
C10_Witness ==
    /\ pc = "tick_err" /\ err.shard = 1
    /\ <<id, 0>> \in debugLog /\ <<id, 1>> \in failedShards
    /\ tickObs[<<CommonName(id), "failed">>] = 1


\* The number of observations of the current tick under the label "all".
ObservationsOfAll ==
    tickObs[<<AllLabel, "success">>] + tickObs[<<AllLabel, "failed">>]

\* tickIssuer returned an error for issuer i in the current tick.
IssuerFailed(i) == \E k \in 0..(cfg.numShards - 1) : <<i, k>> \in failedShards

\* C11: while a tick runs nothing is observed under "all"; when it has returned
\* there is exactly one such observation, every configured issuer has been
\* processed, and the observation is labelled "success" if and only if
\* tickIssuer returned no error for any issuer (so also with no issuer at all),
\* and "failed" otherwise.
C11_AllObservedOnceAfterIssuers ==
    /\ pc \in (InIssuer \cup {"tick_loop", "tick_err"}) => ObservationsOfAll = 0
    /\ (pc = "idle" /\ ticks > 0) =>
         /\ ObservationsOfAll = 1
         /\ \A i \in cfg.issuers : calls[i] = 1 /\ ObservationsOf(i) = 1
         /\ tickObs[<<AllLabel, "success">>] = 1
              <=> (\A i \in cfg.issuers : ~IssuerFailed(i))

\* C11 witness: a tick has returned in which one issuer failed and another
\* succeeded, and it is observed once, as failed.
C11_Witness ==
    /\ pc = "idle" /\ ticks > 0
    /\ \E i, j \in cfg.issuers :
         /\ IssuerFailed(i) /\ ~IssuerFailed(j)
         /\ tickObs[<<CommonName(j), "success">>] = 1
    /\ tickObs[<<AllLabel, "failed">>] = 1 /\ tickObs[<<AllLabel, "success">>] = 0

\* A shard is logged as complete in this step.
LogsComplete == \E k \in 0..(cfg.numShards - 1) :
                    <<id, k>> \in debugLog' /\ <<id, k>> \notin debugLog

\* The step marks the current shard, and with it the issuer, as failed and logs
\* nothing.
MarksFailed ==
    /\ result' = "failed" /\ pc' = "issuer_ret"
    /\ <<id, shardID>> \in failedShards'
    /\ <<id, shardID>> \notin debugLog'

\* C12: the signature is checked only on what the assembled bytes parsed to;
\* a shard is logged "got complete CRL" only by the step that follows the
\* signature check, when the bytes parsed as a CRL and the CRL is signed by the
\* key of the issuer being processed; bytes that do not parse and a signature
\* of another key mark the shard and the issuer as failed; no shard is both
\* logged complete and failed in one tick.
C12_CompleteOnlyAfterParseThenVerify ==
    /\ [](pc = "verify" => ParsesAsCRL(crlBytes) /\ crl = [signer |-> crlBytes[1]])
    /\ [](debugLog \cap failedShards = {})
    /\ [][LogsComplete =>
            /\ pc = "verify" /\ ParsesAsCRL(crlBytes) /\ crl.signer = id
            /\ debugLog' = debugLog \cup {<<id, shardID>>}]_vars
    /\ [][(pc = "parse" /\ ~ParsesAsCRL(crlBytes)) => MarksFailed]_vars
    /\ [][(pc = "verify" /\ crl.signer # id) => MarksFailed]_vars

\* C12 witness: the first shard of an issuer was logged complete and the bytes
\* of its second shard parsed as a CRL signed by another key.
C12_Witness ==
    /\ pc = "verify" /\ shardID = 1 /\ crl.signer # id
    /\ <<id, 0>> \in debugLog


\* C13 (as claimed): no time of the ticker is skipped: each one has started a
\* tick or is waiting to start one.
C13_NoTriggerSkipped ==
    fired = ticks + tickerChan

\* C13 (amended): a tick starts only when no tick is in progress, and it takes
\* a time out of the ticker's channel; the channel never holds more than one
\* time; a time that arrives during a tick while the channel is empty is kept
\* and starts nothing, and it starts the next tick when Run waits again; a time
\* is dropped only when another one is already in the channel; every time of
\* the ticker has started a tick, is in the channel, or was dropped.
C13_OnePendingOthersDropped ==
    /\ [](tickerChan <= TickerBuffer)
    /\ [](fired = ticks + tickerChan + dropped)
    /\ []((RunIsWaiting /\ tickerChan > 0 /\ ticks < MaxTicks) => ENABLED RunReceive)
    /\ [][ticks' # ticks =>
            /\ pc = "idle" /\ ticks' = ticks + 1
            /\ tickerChan' = tickerChan - 1]_vars
    /\ [][(fired' # fired /\ tickerChan < TickerBuffer) =>
            /\ tickerChan' = tickerChan + 1 /\ dropped' = dropped
            /\ pc' = pc /\ ticks' = ticks]_vars
    /\ [][dropped' # dropped => tickerChan = TickerBuffer /\ pc' = pc]_vars

\* C13 witness: the second tick runs; it was started by a time that arrived
\* during the first tick and waited, and a later time of the first tick was
\* dropped.
C13_Witness ==
    /\ ticks = 2 /\ pc \in InIssuer
    /\ fired = 3 /\ dropped = 1 /\ tickerChan = 0

\* C14: in one tick GetRevokedCerts is called at most once for each (issuer,
\* shard ID) pair and GenerateCRL at most once, and only after GetRevokedCerts;
\* a pair whose shard failed or was logged complete is not the current shard
\* of any later attempt of that tick.
C14_NoRetryWithinTick ==
    \A k \in ShardKeys :
        /\ opened[k].sa <= 1
        /\ opened[k].ca <= opened[k].sa
        /\ (k \in failedShards \cup debugLog /\ k = <<id, shardID>>) =>
              pc \in {"issuer_ret", "tick_err"}

\* C14 witness: in a later tick, the first shard of an issuer failed after both
\* of its streams were opened, and the tick works on another issuer whose
\* streams are opened once as well.
C14_Witness ==
    /\ ticks = 2 /\ pc = "send_meta"
    /\ \E i \in cfg.issuers :
         /\ i # id /\ <<i, 0>> \in failedShards
         /\ opened[<<i, 0>>] = [sa |-> 1, ca |-> 1]
    /\ opened[<<id, shardID>>] = [sa |-> 1, ca |-> 1]

\* The issuers of the issuer map whose call of tickIssuer is over and whose
\* error, if any, tick has handled.
IssuersHandled == {i \in cfg.issuers : calls[i] = 1 /\ id # i}

RECURSIVE SumOver(_, _)
SumOver(f, S) ==
    IF S = {} THEN 0
    ELSE LET x == CHOOSE y \in S : TRUE IN f[x] + SumOver(f, S \ {x})

\* C15: the audit log of a tick holds exactly one entry for each issuer whose
\* tickIssuer call returned an error, which is each issuer observed as
\* "failed", and none for any other issuer; so the entries of a tick are as
\* many as the issuers whose outcome in that tick is "failed".
C15_OneAuditEntryPerFailedIssuer ==
    /\ \A i \in IssuerNameIDs :
         IF i \in IssuersHandled
         THEN /\ auditLog[i] = (IF IssuerFailed(i) THEN 1 ELSE 0)
              /\ auditLog[i] = tickObs[<<CommonName(i), "failed">>]
         ELSE auditLog[i] = 0
    /\ (pc = "idle" /\ ticks > 0) =>
         SumOver(auditLog, IssuerNameIDs)
           = Cardinality({i \in cfg.issuers : tickObs[<<CommonName(i), "failed">>] = 1})

\* C15 witness: a tick of two issuers has returned, both observed as failed,
\* with two entries in the audit log.
C15_Witness ==
    /\ pc = "idle" /\ ticks > 0
    /\ Cardinality({i \in cfg.issuers : tickObs[<<CommonName(i), "failed">>] = 1}) = 2
    /\ SumOver(auditLog, IssuerNameIDs) = 2

\* C17 (as claimed): the counter crl_updater_generated counts the shards of
\* tickIssuer by outcome: in the first tick its "success" value is the number
\* of shards logged complete and its "failed" value the number of shards that
\* failed.
C17_GeneratedCountsShardOutcomes ==
    ticks = 1 =>
        /\ generatedCounter["success"] = Cardinality(debugLog)
        /\ generatedCounter["failed"] = Cardinality(failedShards)

\* C18 (as claimed): every tick that has started returns to Run, all issuers
\* processed, given finite data-source streams and a generation service that
\* ends its output once it has received the end of its input.  A tick that
\* ends in the panic of a zero window width is let pass here.
C18_EveryTickReturns ==
    (pc = "tick_loop") ~> (pc = "idle" \/ pc = "panicked")

\* ------------------------------------------------- claims about NewUpdater

\* The checks of C16 on the arguments a: the number of shards is below one,
\* the update period is seven days or more, or no whole number of nanoseconds
\* times the number of shards gives the window lookback + lookforward as the
\* program computes it.
Rejected(a) ==
    \/ a.numShards < 1
    \/ a.updatePeriod >= SevenDays
    \/ ~\E q \in MinDuration..MaxDuration :
           q * a.numShards = Wrap(a.lookbackPeriod + a.lookforwardPeriod)

\* C16: NewUpdater returns an error and the nil updater for the arguments the
\* three checks reject; for all other arguments it returns no error and an
\* updater that holds the arguments and whose issuer table has exactly the
\* distinct name IDs of the issuers given as its keys.
C16_RejectsOrBuildsUpdater ==
    newRet # <<>> =>
        IF Rejected(newArgs)
        THEN newRet.err /\ newRet.updater = NilUpdater
        ELSE /\ ~newRet.err
             /\ newRet.updater.issuers
                  = {i \in IssuerNameIDs :
                       \E n \in 1..Len(newArgs.issuers) : newArgs.issuers[n] = i}
             /\ newRet.updater.numShards = newArgs.numShards
             /\ newRet.updater.lookbackPeriod = newArgs.lookbackPeriod
             /\ newRet.updater.lookforwardPeriod = newArgs.lookforwardPeriod
             /\ newRet.updater.updatePeriod = newArgs.updatePeriod
             /\ cfg = newRet.updater

\* C16 witness: NewUpdater returned an updater for a list that names one
\* issuer twice, and its issuer table has one entry.
C16_Witness ==
    /\ newRet # <<>> /\ ~newRet.err
    /\ Len(newArgs.issuers) = 2 /\ newArgs.issuers[1] = newArgs.issuers[2]
    /\ Cardinality(newRet.updater.issuers) = 1
    /\ newArgs.numShards > 1 /\ newArgs.updatePeriod = SevenDays - 1

\* ------------------------------------------ claims about getWindowForShard

Max2(a, b) == IF a > b THEN a ELSE b
Min2(a, b) == IF a < b THEN a ELSE b

\* The observation window [t - lookback, t + lookforward) of reference time t.
WindowLeft(t) == t - cfg.lookbackPeriod
WindowRight(t) == t + cfg.lookforwardPeriod

\* The half-open interval w has nonzero overlap with [l, r).
Overlaps(w, l, r) == Max2(w.start, l) < Min2(w.end, r)

\* Durations an operator would configure: none negative, the window not empty.
PlainConfig ==
    /\ cfg.lookbackPeriod >= 0 /\ cfg.lookforwardPeriod >= 0
    /\ windowWidthOf(cfg) > 0

FirstDone == wpc \in {"first", "second"} /\ Len(wins1) = cfg.numShards
SecondDone == wpc = "second" /\ Len(wins2) = cfg.numShards

\* The interval w moved by n window widths.
Shifted(w, n) ==
    [start |-> w.start + n * windowWidthOf(cfg), end |-> w.end + n * windowWidthOf(cfg)]

\* The chunk instance with ID k of cycle n, counted from the zero time.
ChunkInstance(k, n) ==
    [start |-> k * shardWidthOf(cfg) + n * windowWidthOf(cfg),
     end   |-> (k + 1) * shardWidthOf(cfg) + n * windowWidthOf(cfg)]

\* C3 (as claimed): the interval returned for shard k has nonzero overlap with
\* [t-lookback, t+lookforward), and no earlier instance of the chunk has.
\* Stated for the configurations without lookback, whose window starts at the
\* reference time.
C3_OverlapsAndEarliest ==
    (FirstDone /\ PlainConfig /\ cfg.lookbackPeriod = 0) =>
        \A k \in 1..cfg.numShards :
            /\ Overlaps(wins1[k], WindowLeft(wT1), WindowRight(wT1))
            /\ \A n \in 1..2 :
                 ~Overlaps(Shifted(wins1[k], -n), WindowLeft(wT1), WindowRight(wT1))

StillCurrent(k) ==
    /\ zeroStartOf(cfg, wT1) = zeroStartOf(cfg, wT2)
    /\ wins1[k].end >= WindowLeft(wT2)

MinStart ==
    CHOOSE u \in {wins1[k].start : k \in 1..cfg.numShards} :
        \A k \in 1..cfg.numShards : u <= wins1[k].start

\* The intervals returned at the first reference time tile [u, u + windowWidth):
\* every instant of it lies in exactly one of them and none reaches outside.
Tiles(u) ==
    /\ \A x \in u..(u + windowWidthOf(cfg) - 1) :
         Cardinality({k \in 1..cfg.numShards :
                        wins1[k].start <= x /\ x < wins1[k].end}) = 1
    /\ \A k \in 1..cfg.numShards :
         /\ wins1[k].start < wins1[k].end
         /\ u <= wins1[k].start
         /\ wins1[k].end <= u + windowWidthOf(cfg)

\* C5 (as claimed): the intervals of the shards 0 .. numShards-1 tile exactly
\* [t-lookback, t+lookforward).  Stated for non-negative durations only.
C5_TilesObservationWindow ==
    (FirstDone /\ PlainConfig) => Tiles(WindowLeft(wT1))

\* C5 (amended): for a positive window width the intervals of the shards
\* 0 .. numShards-1 tile exactly one interval [u, u + windowWidth), without gap
\* or overlap; with a lookback that is not negative, u is a chunk boundary with
\* t - lookback - shardWidth <= u <= t, not the window's left edge.
C5_TilesOneWindowWidth ==
    (FirstDone /\ windowWidthOf(cfg) > 0) =>
        /\ Tiles(MinStart)
        /\ cfg.lookbackPeriod >= 0 =>
             /\ MinStart <= wT1
             /\ MinStart >= WindowLeft(wT1) - shardWidthOf(cfg)

\* C5 witness: several shards, some bumped forward and some not, and the tiled
\* interval is not the observation window.
C5_Witness ==
    /\ FirstDone /\ PlainConfig /\ cfg.numShards > 2
    /\ Tiles(MinStart)
    /\ MinStart # WindowLeft(wT1)
    /\ wins1[1].start > wins1[cfg.numShards].start

\* C6 (as claimed): the start of shard k's interval is congruent to
\* k * shardWidth modulo the window width, counted from the zero time, and the
\* interval is one shard width long, at every reference time.  Stated for
\* non-negative durations only.
C6_AnchoredToEpoch ==
    (FirstDone /\ PlainConfig) =>
        \A k \in 1..cfg.numShards :
            /\ (wins1[k].start - (k - 1) * shardWidthOf(cfg)) % windowWidthOf(cfg) = 0
            /\ wins1[k].end - wins1[k].start = shardWidthOf(cfg)

\* C19 (as claimed): for a configuration NewUpdater accepts getWindowForShard
\* has no failure mode: the modulo by the window width does not panic, and
\* wherever it returns the window width and the shard width are positive and
\* the interval returned is not empty, start < end.
C19_NoFailureMode ==
    /\ wpc # "panic"
    /\ \A k \in 1..Len(wins1) :
         /\ windowWidthOf(cfg) > 0 /\ shardWidthOf(cfg) > 0
         /\ wins1[k].start < wins1[k].end

\* The rightmost end among the intervals returned at the first reference time.
MaxEnd ==
    CHOOSE u \in {wins1[k].end : k \in 1..cfg.numShards} :
        \A k \in 1..cfg.numShards : u >= wins1[k].end

\* The shards whose interval, returned at the first reference time, holds the
\* expiry time x.
ShardsQuerying(x) ==
    {k \in 1..cfg.numShards : wins1[k].start <= x /\ x < wins1[k].end}

\* C20: at every reference time, for a positive window width, the intervals
\* returned for the shard IDs 0 .. numShards-1 are pairwise disjoint, each is
\* exactly (lookback+lookforward)/numShards wide, and together they are one
\* contiguous interval lookback+lookforward wide; so no expiry time lies in
\* the intervals of two shards of one issuer-tick.
C20_ShardsPartitionOneInterval ==
    (FirstDone /\ windowWidthOf(cfg) > 0) =>
        /\ \A j, k \in 1..cfg.numShards :
             j # k => ~Overlaps(wins1[j], wins1[k].start, wins1[k].end)
        /\ \A k \in 1..cfg.numShards :
             /\ (wins1[k].end - wins1[k].start) * cfg.numShards = windowWidthOf(cfg)
             /\ wins1[k].end - wins1[k].start
                  = (cfg.lookbackPeriod + cfg.lookforwardPeriod) \div cfg.numShards
        /\ MaxEnd - MinStart = cfg.lookbackPeriod + cfg.lookforwardPeriod
        /\ \A x \in MinStart..(MaxEnd - 1) : Cardinality(ShardsQuerying(x)) = 1
        /\ \A x \in (MinStart - MaxDuration)..(MaxEnd + MaxDuration) :
             Cardinality(ShardsQuerying(x)) <= 1

\* C20 witness: at a reference time past the largest duration, three shards
\* or more, the first one bumped forward by one window to where the last one
\* ends, and the expiry time on their border is queried by one shard only.
C20_Witness ==
    /\ FirstDone /\ windowWidthOf(cfg) > 0 /\ cfg.numShards >= 3
    /\ wT1 > MaxDuration
    /\ wins1[1].start > wins1[cfg.numShards].start
    /\ wins1[1].start = wins1[cfg.numShards].end
    /\ ShardsQuerying(wins1[1].start) = {1}

====
